---- MODULE Spec2Model ----
(***************************************************************************)
(* FantasyView of the JPL fan application (src/unnamed/part_000).          *)
(*                                                                         *)
(* The view keeps the player list, the contest and the scores mapping it   *)
(* receives from its three subscriptions, the roster under construction    *)
(* (team), and the joining/joined flags.  joinContest issues three         *)
(* sequential document writes under a fresh auto-id container of the       *)
(* user's namespace.                                                       *)
(*                                                                         *)
(* Scheduling: the application is single threaded.  A click is a discrete  *)
(* event: React renders the view again before the next event is            *)
(* dispatched, so every handler runs with the closure of the current       *)
(* state and each handler together with the render that follows it is one  *)
(* step.  joinContest suspends at each await; other events interleave      *)
(* there.                                                                  *)
(***************************************************************************)
EXTENDS Integers, Sequences, FiniteSets, TLC

VARIABLES
  players,    \* useState([])    line 368: the list the players subscription delivered
  team,       \* useState([])    line 369: the roster, an array of player objects
  contest,    \* useState(null)  line 367
  scores,     \* useState({})    line 370: entries in property order
  joining,    \* useState(false) line 371
  joined,     \* useState(false) line 372
  alertMsg,   \* the text of the last alert() shown, "" when none
  pc,         \* where the pending joinContest call is suspended
  job,        \* the closure of the pending joinContest call
  store,      \* users/{uid}/jpl_fantasy: one entry per auto-id container
  clicks,     \* number of player-button clicks so far
  appMounted, \* JPLApp, the element of route "/", is mounted
  fbStatus,   \* useFirebase state.status: 'init', 'authing', 'ready' or 'error'
  authPc,     \* where init() of useFirebase is
  tab,        \* useState('home') line 551
  subs        \* the subscriptions that are open (registered and not canceled)

vars == <<players, team, contest, scores, joining, joined, alertMsg, pc, job, store, clicks,
          appMounted, fbStatus, authPc, tab, subs>>

lifeVars == <<appMounted, fbStatus, authPc, tab, subs>>

rosterVars == <<players, team, clicks>>
joinVars == <<contest, joining, joined, alertMsg, pc, job, store>>

----------------------------------------------------------------------------
(* Bounds of the model *)

\* player documents in the shared players collection
NumIds == 12
\* the first FreeIds players of the list are clicked at will; the others are
\* selected in list order and deselected in the reverse order
FreeIds == 1
\* the players subscription delivers the seeded list with the roles of the
\* first 0..MaxEdits players edited
MaxEdits == 1
\* player-button clicks in one run
MaxClicks == 13
\* joinContest calls that get as far as allocating a container
MaxJoins == 2
\* entries of the scores mapping
MaxScores == 22
\* the points of entry i are (stride * i + offset) % PointsMod
MaxStride == 2
PointsMod == 5

----------------------------------------------------------------------------
(* Program constants *)

maxPlayers == 11
budgetCap == 100
\* players.slice(0, 20)
ShownPlayers == 20
\* .slice(0, 20) of the leaderboard
TopK == 20

Min(a, b) == IF a <= b THEN a ELSE b

\* The view JPLApp renders: none before status 'ready' (the early returns) or
\* once JPLApp is unmounted, else the view of the tab (none for 'home').
ActiveView(mounted, status, t) ==
  IF mounted /\ status = "ready" /\ t # "home" THEN t ELSE "none"

----------------------------------------------------------------------------
(* Player documents *)

\* roles[i % roles.length] with roles = ['Batsman', 'Bowler', 'All-rounder']
SeedRole(i) ==
  IF i % 3 = 0 THEN "Batsman" ELSE IF i % 3 = 1 THEN "Bowler" ELSE "All-rounder"

\* A role written to a player document by something other than the seeding
\* routine: a role outside the three seeded ones, or another seeded one.
EditedRole(i) == IF i % 2 = 1 THEN "Wicketkeeper" ELSE "Batsman"

\* The list built by the players subscription: { id: d.id, ...d.data() } per
\* document, in document order; v is the number of edited documents.
PlayerList(v) ==
  [i \in 1..NumIds |-> [id |-> i, role |-> IF i <= v THEN EditedRole(i) ELSE SeedRole(i)]]

\* players.slice(0, 20)
Shown == SubSeq(players, 1, Min(ShownPlayers, Len(players)))

----------------------------------------------------------------------------
(* Roster builder *)

\* p.role === 'Batsman' ? 7 : p.role === 'Bowler' ? 8 : 9
creditCost(role) == IF role = "Batsman" THEN 7 ELSE IF role = "Bowler" THEN 8 ELSE 9

RECURSIVE Reduce(_, _)
\* team.reduce((sum, p) => sum + cost(p), sum0), left to right
Reduce(t, sum) ==
  IF t = <<>> THEN sum ELSE Reduce(Tail(t), sum + creditCost(Head(t).role))

budgetUsed(t) == Reduce(t, 0)

\* !!team.find((x) => x.id === p.id)
Selected(t, p) == \E i \in 1..Len(t) : t[i].id = p.id

canAddNoSizeCheck(t, p) ==
  /\ ~Selected(t, p)
  /\ budgetUsed(t) + creditCost(p.role) <= budgetCap

canAddSizeInclusive(t, p) ==
  /\ Len(t) <= maxPlayers
  /\ ~Selected(t, p)
  /\ budgetUsed(t) + creditCost(p.role) <= budgetCap

canAddBudgetInverted(t, p) ==
  /\ Len(t) < maxPlayers
  /\ ~Selected(t, p)
  /\ budgetUsed(t) + creditCost(p.role) >= budgetCap

canAdd(t, p) ==
  /\ Len(t) < maxPlayers
  /\ ~Selected(t, p)
  /\ budgetUsed(t) + creditCost(p.role) <= budgetCap

\* t.filter((x) => x.id !== p.id)
Without(t, p) == SelectSeq(t, LAMBDA x : x.id # p.id)

\* A variant that tests membership by object identity instead of by id.
ToggleTeamByIdentity(t, p) ==
  IF \E i \in 1..Len(t) : t[i] = p
    THEN SelectSeq(t, LAMBDA x : x # p)
    ELSE IF Len(t) < maxPlayers /\ budgetUsed(t) + creditCost(p.role) <= budgetCap
           THEN Append(t, p)
           ELSE t

\* A variant that puts a new player in front.
ToggleTeamPrepend(t, p) ==
  IF Selected(t, p) THEN Without(t, p)
  ELSE IF canAdd(t, p) THEN <<p>> \o t
  ELSE t

\* The player button's onClick, applied to roster t for list entry p:
\*   if (selected) setTeam((t) => t.filter((x) => x.id !== p.id))
\*   else if (canAdd(p)) setTeam((t) => [...t, p])
ToggleTeam(t, p) ==
  IF Selected(t, p) THEN Without(t, p)
  ELSE IF canAdd(t, p) THEN Append(t, p)
  ELSE t

\* The highest id above FreeIds in the roster, FreeIds when there is none.
TailTop ==
  LET ids == {team[i].id : i \in 1..Len(team)} \cap ((FreeIds + 1)..NumIds)
  IN  IF ids = {} THEN FreeIds ELSE CHOOSE m \in ids : \A n \in ids : n <= m

\* The clicks the modelled user makes (a bound on the input, not on the code).
UserMayClick(p) == p.id <= FreeIds \/ p.id = TailTop \/ p.id = TailTop + 1

TogglePlayer(k) ==
  /\ ActiveView(appMounted, fbStatus, tab) = "fantasy"
  /\ clicks < MaxClicks
  /\ k \in 1..Len(Shown)
  /\ UserMayClick(Shown[k])
  /\ team' = ToggleTeam(team, Shown[k])
  /\ clicks' = clicks + 1
  /\ UNCHANGED <<players, scores>>
  /\ UNCHANGED joinVars
  /\ UNCHANGED lifeVars

\* onSnapshot(dbRefs.col('players'), ...) callback
PlayersUpdate(v) ==
  /\ "players" \in subs
  /\ players' = PlayerList(v)
  /\ UNCHANGED <<team, clicks, scores>>
  /\ UNCHANGED joinVars
  /\ UNCHANGED lifeVars

----------------------------------------------------------------------------
(* Contest subscription *)

\* useState(null)
NullContest == [loaded |-> FALSE, id |-> "", exists |-> FALSE, status |-> "undefined", matchId |-> "undefined"]

\* (d) => setContest({ id: d.id, ...d.data() }) for the contest_1 document in
\* state d: "missing" (d.data() is undefined, only the id is set), "open" or
\* "closed".
ContestSnapshot(d) ==
  [loaded  |-> TRUE,
   id      |-> "contest_1",
   exists  |-> d # "missing",
   status  |-> IF d = "missing" THEN "undefined" ELSE d,
   matchId |-> IF d = "missing" THEN "undefined" ELSE "match_2"]

ContestDocStates == {"missing", "open", "closed"}

ContestUpdate(d) ==
  /\ "contest" \in subs
  /\ contest' = ContestSnapshot(d)
  /\ UNCHANGED <<joining, joined, alertMsg, pc, job, store, scores>>
  /\ UNCHANGED rosterVars
  /\ UNCHANGED lifeVars

----------------------------------------------------------------------------
(* Contest join *)

NoTeamDoc == [written |-> FALSE, players |-> <<>>, budgetUsed |-> 0]
NoMembership == [written |-> FALSE, contestId |-> "", matchId |-> ""]

\* doc(collection(userFantasyBase, 'jpl_fantasy')): a fresh auto-id document
\* reference; nothing is written yet.
NewContainer == [marker |-> FALSE, team |-> NoTeamDoc, membership |-> NoMembership]

NoJob == [slot |-> 0, team |-> <<>>, budgetUsed |-> 0, contest |-> NullContest]

\* A variant that reads the roster of the current render, not of the closure.
TeamDocLive(j) ==
  [written |-> TRUE, players |-> [i \in 1..Len(team) |-> team[i].id], budgetUsed |-> budgetUsed(team)]

\* The team_current document: players: team.map((p) => p.id), budgetUsed
TeamDoc(j) ==
  [written |-> TRUE, players |-> [i \in 1..Len(j.team) |-> j.team[i].id], budgetUsed |-> j.budgetUsed]

\* The contests/{contest.id} document
MembershipDoc(j) ==
  [written |-> TRUE, contestId |-> j.contest.id, matchId |-> j.contest.matchId]

\* A variant without the roster-size test.
joinContestNoSizeCheck ==
  IF ~contest.loaded
    THEN UNCHANGED joinVars
    ELSE /\ joining' = TRUE
         /\ store' = Append(store, NewContainer)
         /\ job' = [slot |-> Len(store) + 1, team |-> team,
                    budgetUsed |-> budgetUsed(team), contest |-> contest]
         /\ pc' = "marker"
         /\ UNCHANGED <<contest, joined, alertMsg>>

\* joinContest up to its first await.  dbRefs and user are set whenever the
\* view is mounted (JPLApp renders it only in status 'ready').
joinContest ==
  IF ~contest.loaded
    THEN UNCHANGED joinVars
    ELSE IF Len(team) # maxPlayers
      THEN /\ alertMsg' = "Select exactly 11 players to join."
           /\ UNCHANGED <<contest, joining, joined, pc, job, store>>
      ELSE /\ joining' = TRUE
           /\ store' = Append(store, NewContainer)
           /\ job' = [slot |-> Len(store) + 1, team |-> team,
                      budgetUsed |-> budgetUsed(team), contest |-> contest]
           /\ pc' = "marker"
           /\ UNCHANGED <<contest, joined, alertMsg>>

\* disabled={joining || team.length !== maxPlayers}
JoinDisabled == joining \/ Len(team) # maxPlayers

\* A click on the Join button.
ClickJoin ==
  /\ ~JoinDisabled
  /\ Len(store) < MaxJoins
  /\ joinContest
  /\ UNCHANGED <<scores>>
  /\ UNCHANGED rosterVars
  /\ UNCHANGED lifeVars

\* joinContest called as a function, whatever the button shows; calls are made
\* one at a time.
CallJoinContest ==
  /\ pc = "idle"
  /\ Len(store) < MaxJoins
  /\ joinContest
  /\ UNCHANGED <<scores>>
  /\ UNCHANGED rosterVars
  /\ UNCHANGED lifeVars

\* await setDoc(jplFantasy, {...}) resolves; the team write is issued.
MarkerWritten ==
  /\ pc = "marker"
  /\ store' = [store EXCEPT ![job.slot].marker = TRUE]
  /\ pc' = "team"
  /\ UNCHANGED <<contest, joining, joined, alertMsg, job, scores>>
  /\ UNCHANGED rosterVars
  /\ UNCHANGED lifeVars

\* await setDoc(teamDoc, {...}) resolves; the membership write is issued.
TeamWritten ==
  /\ pc = "team"
  /\ store' = [store EXCEPT ![job.slot].team = TeamDoc(job)]
  /\ pc' = "membership"
  /\ UNCHANGED <<contest, joining, joined, alertMsg, job, scores>>
  /\ UNCHANGED rosterVars
  /\ UNCHANGED lifeVars

\* await setDoc(doc(contestsCol, contest.id), {...}) resolves; setJoined(true);
\* finally setJoining(false).
MembershipWritten ==
  /\ pc = "membership"
  /\ store' = [store EXCEPT ![job.slot].membership = MembershipDoc(job)]
  /\ joined' = TRUE
  /\ joining' = FALSE
  /\ pc' = "idle"
  /\ job' = NoJob
  /\ UNCHANGED <<contest, alertMsg, scores>>
  /\ UNCHANGED rosterVars
  /\ UNCHANGED lifeVars

\* A variant whose catch also resets the roster.
WriteFailedClearsTeam ==
  /\ pc \in {"marker", "team", "membership"}
  /\ alertMsg' = "Failed to join contest."
  /\ joining' = FALSE
  /\ pc' = "idle"
  /\ job' = NoJob
  /\ team' = <<>>
  /\ UNCHANGED <<contest, joined, store, scores, players, clicks>>
  /\ UNCHANGED lifeVars

\* The awaited setDoc rejects: catch alerts, finally setJoining(false).
WriteFailed ==
  /\ pc \in {"marker", "team", "membership"}
  /\ alertMsg' = "Failed to join contest."
  /\ joining' = FALSE
  /\ pc' = "idle"
  /\ job' = NoJob
  /\ UNCHANGED <<contest, joined, store, scores>>
  /\ UNCHANGED rosterVars
  /\ UNCHANGED lifeVars

----------------------------------------------------------------------------
(* Scores subscription and leaderboard *)

\* The userScores mapping with n entries, as the list Object.entries gives.
\* Entry i carries points (stride * i + offset) % PointsMod - 1, from -1 up;
\* an even entry whose remainder is 0 has no points property instead.
ScoresSnapshot(n, stride, offset) ==
  [i \in 1..n |->
     LET v == (stride * i + offset) % PointsMod
         absent == v = 0 /\ i % 2 = 0
     IN  [uid |-> i, hasPoints |-> ~absent, points |-> IF absent THEN 0 ELSE v - 1]]

\* s?.points || 0
Pts(e) == IF e.hasPoints THEN e.points ELSE 0

RECURSIVE Insert(_, _)
\* e goes behind every entry the comparator does not put after it
\* ((b.points || 0) - (a.points || 0) <= 0 for a before b): the sort is stable.
Insert(sorted, e) ==
  IF sorted = <<>> THEN <<e>>
  ELSE IF Pts(Head(sorted)) < Pts(e) THEN <<e>> \o sorted
  ELSE <<Head(sorted)>> \o Insert(Tail(sorted), e)

RECURSIVE Sort(_)
\* .sort((a, b) => (b[1]?.points || 0) - (a[1]?.points || 0))
Sort(s) == IF s = <<>> THEN <<>> ELSE Insert(Sort(SubSeq(s, 1, Len(s) - 1)), s[Len(s)])

\* The rows of a list of entries: rank i + 1 for index i, uid, points shown.
Rows(top) == [i \in 1..Len(top) |-> [rank |-> i, uid |-> top[i].uid, points |-> Pts(top[i])]]

\* A variant that truncates before it sorts.
LeaderboardSliceFirst(s) == Rows(Sort(SubSeq(s, 1, Min(TopK, Len(s)))))

\* Object.entries(scores).sort(...).slice(0, 20).map(([uid, s], i) => row)
Leaderboard(s) == Rows(SubSeq(Sort(s), 1, Min(TopK, Len(s))))

\* onSnapshot(dbRefs.metaDoc('fantasy_scores_match_2'), ...) callback
ScoresUpdate(n, stride, offset) ==
  /\ "scores" \in subs
  /\ scores' = ScoresSnapshot(n, stride, offset)
  /\ UNCHANGED joinVars
  /\ UNCHANGED rosterVars
  /\ UNCHANGED lifeVars

----------------------------------------------------------------------------
(* Mounting, tabs and subscriptions *)

Tabs == {"home", "scores", "fantasy", "teams"}

\* The subscriptions the effect of a view opens with onSnapshot.
OpenedBy(view) ==
  IF view = "scores" THEN {"matches", "points"}
  ELSE IF view = "fantasy" THEN {"contest", "players", "scores"}
  ELSE IF view = "teams" THEN {"teams"}
  ELSE {}

\* The subscriptions the function returned by a view's effect cancels.
CanceledBy(view) ==
  IF view = "scores" THEN {"matches", "points"}
  ELSE IF view = "fantasy" THEN {"contest", "players", "scores"}
  ELSE IF view = "teams" THEN {"teams"}
  ELSE {}

\* The subscriptions the cleanup of the useFirebase effect cancels: the effect
\* callback calls init() and returns nothing; () => unsub() is the value the
\* async init resolves to, which nobody reads.
CanceledByHook == {}

\* React replaces view old by view new: the cleanup of old runs, new is
\* constructed with its initial state and its effect runs.
SwitchView(old, new) ==
  IF old = new
    THEN UNCHANGED <<subs, players, team, contest, scores, joining, joined>>
    ELSE /\ subs' = (subs \ CanceledBy(old)) \cup OpenedBy(new)
         /\ IF old = "fantasy" \/ new = "fantasy"
              THEN /\ players' = <<>>
                   /\ team' = <<>>
                   /\ contest' = NullContest
                   /\ scores' = <<>>
                   /\ joining' = FALSE
                   /\ joined' = FALSE
              ELSE UNCHANGED <<players, team, contest, scores, joining, joined>>

\* A tab button or BottomNav: setTab(k).  The buttons exist in status 'ready'.
SetTab(k) ==
  /\ appMounted
  /\ fbStatus = "ready"
  /\ tab' = k
  /\ SwitchView(ActiveView(appMounted, fbStatus, tab), ActiveView(appMounted, fbStatus, k))
  /\ UNCHANGED <<appMounted, fbStatus, authPc, alertMsg, pc, job, store, clicks>>

\* The awaited sign-in resolves: init() registers the auth-state listener,
\* whether or not JPLApp is still mounted.
SignedIn ==
  /\ authPc = "signing"
  /\ authPc' = "listening"
  /\ subs' = subs \cup {"auth"}
  /\ UNCHANGED <<appMounted, fbStatus, tab>>
  /\ UNCHANGED <<players, team, contest, scores, joining, joined, alertMsg, pc, job, store, clicks>>

\* The anonymous sign-in rejects: catch sets status 'error' (a setState that
\* React drops when the component is unmounted).
SignInFailed ==
  /\ authPc = "signing"
  /\ authPc' = "failed"
  /\ fbStatus' = IF appMounted THEN "error" ELSE fbStatus
  /\ UNCHANGED <<appMounted, tab, subs>>
  /\ UNCHANGED <<players, team, contest, scores, joining, joined, alertMsg, pc, job, store, clicks>>

\* The auth-state listener is called with a user or with null:
\* setState status 'ready' or 'authing'; JPLApp renders the views or the
\* loader accordingly.
AuthChanged(signedIn) ==
  /\ "auth" \in subs
  /\ LET status == IF ~appMounted THEN fbStatus
                   ELSE IF signedIn THEN "ready" ELSE "authing"
     IN  /\ fbStatus' = status
         /\ SwitchView(ActiveView(appMounted, fbStatus, tab), ActiveView(appMounted, status, tab))
  /\ UNCHANGED <<appMounted, authPc, tab, alertMsg, pc, job, store, clicks>>

\* The router leaves route "/": JPLApp and its view are unmounted and the
\* cleanups of their effects run.
UnmountApp ==
  /\ appMounted
  /\ appMounted' = FALSE
  /\ SwitchView(ActiveView(appMounted, fbStatus, tab), "none")
  /\ UNCHANGED <<fbStatus, authPc, tab, alertMsg, pc, job, store, clicks>>

----------------------------------------------------------------------------

\* FantasyView right after it is mounted: the user is signed in, the Fantasy
\* tab is chosen, the view's effect has opened its three subscriptions and no
\* snapshot has arrived yet.
Init ==
  /\ players = <<>>
  /\ team = <<>>
  /\ contest = NullContest
  /\ scores = <<>>
  /\ joining = FALSE
  /\ joined = FALSE
  /\ alertMsg = ""
  /\ pc = "idle"
  /\ job = NoJob
  /\ store = <<>>
  /\ clicks = 0
  /\ appMounted = TRUE
  /\ fbStatus = "ready"
  /\ authPc = "listening"
  /\ tab = "fantasy"
  /\ subs = {"auth", "contest", "players", "scores"}

\* the roster builder alone: player buttons and the players subscription
NextRoster ==
  \/ \E k \in 1..ShownPlayers : TogglePlayer(k)
  \/ \E v \in 0..MaxEdits : PlayersUpdate(v)

SpecRoster == Init /\ [][NextRoster]_vars

ViewNext ==
  \/ NextRoster
  \/ \E d \in ContestDocStates : ContestUpdate(d)
  \/ MarkerWritten
  \/ TeamWritten
  \/ MembershipWritten
  \/ WriteFailed

\* The roster builder and the contest join.  The scores mapping shares no
\* state with them; its subscription is exercised by SpecBoard below.
Next == ViewNext \/ ClickJoin

Spec == Init /\ [][Next]_vars

\* joinContest exercised as a function
NextCall == ViewNext \/ CallJoinContest

SpecCall == Init /\ [][NextCall]_vars

\* the leaderboard fed by its subscription
NextBoard ==
  \E n \in 0..MaxScores : \E stride \in 0..MaxStride : \E offset \in 0..(PointsMod - 1) :
    ScoresUpdate(n, stride, offset)

SpecBoard == Init /\ [][NextBoard]_vars

\* JPLApp right after it is mounted: init() has set status 'authing' and
\* awaits the sign-in, or has found the configuration missing.
InitApp ==
  /\ players = <<>>
  /\ team = <<>>
  /\ contest = NullContest
  /\ scores = <<>>
  /\ joining = FALSE
  /\ joined = FALSE
  /\ alertMsg = ""
  /\ pc = "idle"
  /\ job = NoJob
  /\ store = <<>>
  /\ clicks = 0
  /\ appMounted = TRUE
  /\ \E config \in BOOLEAN :
       /\ fbStatus = (IF config THEN "authing" ELSE "error")
       /\ authPc = (IF config THEN "signing" ELSE "failed")
  /\ tab = "home"
  /\ subs = {}

\* mounting, tabs, sign-in and the subscriptions of the views
NextLife ==
  \/ \E k \in Tabs : SetTab(k)
  \/ SignedIn
  \/ SignInFailed
  \/ \E signedIn \in BOOLEAN : AuthChanged(signedIn)
  \/ UnmountApp
  \/ \E k \in 1..ShownPlayers : TogglePlayer(k)
  \/ \E v \in 0..MaxEdits : PlayersUpdate(v)
  \/ \E d \in ContestDocStates : ContestUpdate(d)
  \/ \E n \in 0..1 : ScoresUpdate(n, 0, 1)

SpecLife == InitApp /\ [][NextLife]_vars

----------------------------------------------------------------------------
(* Properties *)

Count(t, role) == Cardinality({i \in 1..Len(t) : t[i].role = role})

\* The credit cost of a roster, by role counts: Batsman 7, Bowler 8, anything
\* else 9.
RosterCost(t) ==
  7 * Count(t, "Batsman") + 8 * Count(t, "Bowler")
    + 9 * (Len(t) - Count(t, "Batsman") - Count(t, "Bowler"))

Ids(t) == {t[i].id : i \in 1..Len(t)}

\* C1: in every reachable state the roster has at most 11 players and its
\* credit cost (Batsman 7, Bowler 8, anything else 9) is at most 100.
RosterWithinLimits ==
  /\ Len(team) <= maxPlayers
  /\ RosterCost(team) <= budgetCap

\* A full roster, a click on a twelfth player made, and a join attempted.
FullRosterReached ==
  /\ Len(team) = maxPlayers
  /\ clicks > maxPlayers
  /\ Len(store) > 0

\* C2: in every reachable state no two roster entries have the same player id.
NoDuplicateIds ==
  \A i, j \in 1..Len(team) : i # j => team[i].id # team[j].id

\* A roster entry whose list entry was replaced by a subscription update after
\* it was selected, with deselections made before.
StaleEntryInRoster ==
  /\ Len(team) >= 2
  /\ clicks > Len(team)
  /\ \E i \in 1..Len(team) : \E k \in 1..Len(Shown) :
       Shown[k].id = team[i].id /\ Shown[k] # team[i]

\* C3: a joinContest call with a roster whose size is not 11 is rejected and
\* writes nothing: the store and the join state are what they were.
RejectedJoinWritesNothing ==
  [][(Len(team) # maxPlayers /\ CallJoinContest)
       => (store' = store /\ pc' = pc /\ joining' = joining /\ joined' = joined)]_vars

\* joinContest was called with a roster of at most 10 players (10 clicks so
\* far, 10 players now) and alerted; nothing is stored.
JoinRejectedAtTen ==
  /\ alertMsg = "Select exactly 11 players to join."
  /\ contest.loaded
  /\ clicks = 10
  /\ Len(team) = 10
  /\ store = <<>>

Written(c) == {c.marker, c.team.written, c.membership.written}

\* C4: after a join attempt completes, its three records (marker, team,
\* membership) all exist or none does.
JoinAllOrNothing ==
  pc = "idle" => \A i \in 1..Len(store) : Cardinality(Written(store[i])) = 1

\* C5: at most one membership record exists for the user and contest_1.
AtMostOneMembership ==
  Cardinality({i \in 1..Len(store) :
                 store[i].membership.written /\ store[i].membership.contestId = "contest_1"}) <= 1

\* C6: a join whose contest document does not exist or is not open writes
\* nothing, even with 11 players.
NoWriteUnlessKnownOpenContest ==
  (pc # "idle" /\ ~(job.contest.exists /\ job.contest.status = "open"))
    => store[job.slot] = NewContainer

\* C7: canAdd(candidate) is true iff the roster has fewer than 11 players, no
\* roster entry has the candidate's id, and the roster's cost plus the
\* candidate's cost is at most 100.
CanAddIffRoomNewAndAffordable ==
  \A k \in 1..Len(players) :
    LET p == players[k]
    IN  canAdd(team, p) <=>
          /\ Len(team) <= maxPlayers - 1
          /\ p.id \notin Ids(team)
          /\ RosterCost(team) + RosterCost(<<p>>) <= budgetCap

\* A roster of 10 after a subscription update: canAdd accepts a listed player
\* that is not in it and refuses one that is.
CanAddDecidesAtTen ==
  /\ Len(team) = maxPlayers - 1
  /\ \E k \in 1..Len(players) : players[k].id \notin Ids(team) /\ canAdd(team, players[k])
  /\ \E k \in 1..Len(players) : players[k].id \in Ids(team) /\ ~canAdd(team, players[k])

\* The position of player id in roster t.
IndexOf(t, id) == CHOOSE i \in 1..Len(t) : t[i].id = id

\* Roster r is roster t with the one entry of player p taken out, the others
\* kept in order, and costs less by that entry's cost.
RemovesExactly(t, r, p) ==
  LET i == IndexOf(t, p.id)
  IN  /\ r = SubSeq(t, 1, i - 1) \o SubSeq(t, i + 1, Len(t))
      /\ RosterCost(r) = RosterCost(t) - RosterCost(<<t[i]>>)

\* C8 as stated: toggling a selected player removes exactly that player, and
\* toggling it again at once gives the original roster back, as a sequence.
ToggleTwiceRestoresRoster ==
  \A k \in 1..Len(Shown) :
    LET p == Shown[k]
        r == ToggleTeam(team, p)
    IN  Selected(team, p) =>
          /\ RemovesExactly(team, r, p)
          /\ ToggleTeam(r, p) = team

\* C8 amended: toggling a selected player removes exactly that player, and
\* toggling it again at once appends the player's current list entry to what
\* was left: the roster has the same player ids and size as the original, with
\* that player last.
ToggleTwiceMovesPlayerLast ==
  \A k \in 1..Len(Shown) :
    LET p == Shown[k]
        r == ToggleTeam(team, p)
        r2 == ToggleTeam(r, p)
    IN  Selected(team, p) =>
          /\ RemovesExactly(team, r, p)
          /\ r2 = r \o <<p>>
          /\ Ids(r2) = Ids(team)
          /\ Len(r2) = Len(team)

\* A roster, after deselections, holding a listed player that is not its last
\* entry.
SelectedPlayerNotLast ==
  /\ Len(team) >= 2
  /\ clicks > Len(team)
  /\ \E k \in 1..Len(Shown) :
       Selected(team, Shown[k]) /\ team[Len(team)].id # Shown[k].id

\* C9: the leaderboard is the first min(20, n) of all n entries in
\* non-increasing order of points (absent points count 0), row i carrying rank
\* i; no entry left out has more points than a row.
LeaderboardIsTopOfFullOrder ==
  LET L == Leaderboard(scores)
      n == Len(scores)
      shown == {L[i].uid : i \in 1..Len(L)}
  IN  /\ Len(L) = Min(20, n)
      /\ Cardinality(shown) = Len(L)
      /\ \A i \in 1..Len(L) :
           /\ L[i].rank = i
           /\ \E k \in 1..n :
                /\ scores[k].uid = L[i].uid
                /\ L[i].points = (IF scores[k].hasPoints THEN scores[k].points ELSE 0)
      /\ \A i, j \in 1..Len(L) : i < j => L[i].points >= L[j].points
      /\ \A k \in 1..n : scores[k].uid \notin shown =>
           \A i \in 1..Len(L) :
             (IF scores[k].hasPoints THEN scores[k].points ELSE 0) <= L[i].points

\* More than 20 entries, one without points and one with negative points, and
\* an entry behind the twentieth of the mapping on the leaderboard.
LeaderboardTruncates ==
  /\ Len(scores) > TopK
  /\ \E k \in 1..Len(scores) : ~scores[k].hasPoints
  /\ \E k \in 1..Len(scores) : scores[k].hasPoints /\ scores[k].points < 0
  /\ \E i \in 1..Len(Leaderboard(scores)) : Leaderboard(scores)[i].uid > TopK

RecognizedRoles == {"Batsman", "Bowler", "All-rounder"}

\* C10: a player with a role outside Batsman, Bowler, All-rounder is never
\* given a credit cost and never admitted to the roster.
UnrecognizedRoleNeverAdmitted ==
  \A i \in 1..Len(team) : team[i].role \in RecognizedRoles

\* C11: a join attempt never changes the roster: every step that changes the
\* join state (a rejection, an issued or completed write, a failure, the
\* success) leaves team as it was, and a full roster can be joined again as
\* soon as the attempt is over.
JoinLeavesRoster ==
  [][(<<joining, joined, alertMsg, pc, job, store>>' # <<joining, joined, alertMsg, pc, job, store>>)
       => /\ team' = team
          /\ (pc' = "idle" /\ Len(team') = maxPlayers) => ~JoinDisabled']_vars

\* A join of a full roster failed after its marker write; the roster is still
\* full.
FailedJoinKeepsFullRoster ==
  /\ alertMsg = "Failed to join contest."
  /\ pc = "idle"
  /\ Len(team) = maxPlayers
  /\ \E i \in 1..Len(store) : store[i].marker /\ ~store[i].membership.written

\* C13: the 100-credit cap never rejects a candidate: with fewer than 11
\* players in the roster canAdd accepts every listed player that is not in it,
\* a roster of at most 10 costs at most 90, and a click leaves the roster as it
\* was only when the roster is full.
CapNeverRejects ==
  /\ Len(team) < maxPlayers => RosterCost(team) <= 90
  /\ \A k \in 1..Len(Shown) :
       LET p == Shown[k]
       IN  /\ (Len(team) < maxPlayers /\ p.id \notin Ids(team)) => canAdd(team, p)
           /\ ToggleTeam(team, p) = team => Len(team) = maxPlayers

\* A roster of 10 with an edited entry of cost 9 and a listed candidate outside
\* it.
CandidateAtTenPlayers ==
  /\ Len(team) = maxPlayers - 1
  /\ \E i \in 1..Len(team) : team[i].role \notin RecognizedRoles
  /\ \E k \in 1..Len(Shown) : Shown[k].id \notin Ids(team)

OwnerActive(sub) ==
  IF sub = "auth" THEN appMounted
  ELSE sub \in OpenedBy(ActiveView(appMounted, fbStatus, tab))

\* C12: every subscription the application opened is canceled when its owning
\* view or hook is torn down: no subscription is open without an active owner.
SubscriptionsHaveActiveOwner ==
  \A sub \in subs : OwnerActive(sub)

====
